---- MODULE Spec2Model ----
(***************************************************************************)
(* Model of optimum/exporters/neuron/__main__.py: shape resolution, model  *)
(* decomposition and the export/validate orchestration of main_export.     *)
(*                                                                         *)
(* Python strings that the code inspects (task, model identifiers, submodel*)
(* names, artifact paths) are sequences of one-character strings, so that  *)
(* `in`, split("/"), lower() and os.path.join are computed, not assumed.   *)
(***************************************************************************)
EXTENDS Integers, Sequences, FiniteSets, TLC

\* ------------------------------------------------------------------ bounds
MaxDim == 5          \* caller height / width range 1..MaxDim
MaxBlocks == 4       \* len(vae.config.block_out_channels) range 1..MaxBlocks
MaxSeqLen == 2       \* tokenizer.model_max_length range 1..MaxSeqLen
MaxBatch == 2        \* caller batch size range 1..MaxBatch
MaxControlnets == 2  \* number of controlnet ids range 0..MaxControlnets
MaxNameLen == 3      \* model identifier length range 0..MaxNameLen
MaxFailed == 1       \* submodels whose compilation may fail in one run
MaxAdapters == 3     \* length of an adapter parameter list range 0..MaxAdapters

\* Python None where an integer is expected (a shape value never is negative).
None == 0 - 1

\* ----------------------------------------------------------------- strings
Contains(s, sub) ==
    \E i \in 1..(Len(s) - Len(sub) + 1) : SubSeq(s, i, i + Len(sub) - 1) = sub

LowerChar(c) ==
    CASE c = "C" -> "c" [] c = "L" -> "l" [] c = "I" -> "i" [] c = "P" -> "p"
      [] OTHER -> c

Lower(s) == [i \in 1..Len(s) |-> LowerChar(s[i])]

\* LastSegment taking split("/")[0]
LastSegment_first(s) ==
    LET slashes == {i \in 1..Len(s) : s[i] = "/"}
    IN  IF slashes = {} THEN s
        ELSE LET first == CHOOSE i \in slashes : \A j \in slashes : i <= j
             IN  SubSeq(s, 1, first - 1)

\* s.split("/")[-1]: what follows the last "/" of s, or s when it has none.
LastSegment(s) ==
    LET slashes == {i \in 1..Len(s) : s[i] = "/"}
    IN  IF slashes = {} THEN s
        ELSE LET last == CHOOSE i \in slashes : \A j \in slashes : j <= i
             IN  SubSeq(s, last + 1, Len(s))

\* str(idx) for the indices that occur
Digit(n) == CASE n = 0 -> "0" [] n = 1 -> "1" [] n = 2 -> "2" [] n = 3 -> "3"
              [] n = 4 -> "4" [] n = 5 -> "5" [] n = 6 -> "6" [] n = 7 -> "7"
              [] n = 8 -> "8" [] n = 9 -> "9"

Str(n) == IF n < 10 THEN <<Digit(n)>> ELSE <<Digit(n \div 10), Digit(n % 10)>>

\* os.path.join(a, b) for relative, non-empty a
PathJoin(a, b) == a \o <<"/">> \o b

\* dict helpers: a dict is a function; d.update(e) / d[k] = v / d.pop(k)
Update(d, e) ==
    [k \in (DOMAIN d) \cup (DOMAIN e) |-> IF k \in DOMAIN e THEN e[k] ELSE d[k]]

Without(d, k) == [x \in (DOMAIN d) \ {k} |-> d[x]]

Restrict(d, ks) == [x \in ks |-> d[x]]

\* ------------------------------------------------------ imported constants
STABLE_DIFFUSION == <<"s","t","a","b","l","e","-","d","i","f","f","u","s","i","o","n">>
ENCODER_NAME == <<"e","n","c","o","d","e","r">>
DECODER_NAME == <<"d","e","c","o","d","e","r">>
DIFFUSION_MODEL_TEXT_ENCODER_NAME == <<"t","e","x","t","_","e","n","c","o","d","e","r">>
DIFFUSION_MODEL_TEXT_ENCODER_2_NAME == DIFFUSION_MODEL_TEXT_ENCODER_NAME \o <<"_","2">>
DIFFUSION_MODEL_UNET_NAME == <<"u","n","e","t">>
DIFFUSION_MODEL_VAE_ENCODER_NAME == <<"v","a","e","_","e","n","c","o","d","e","r">>
DIFFUSION_MODEL_VAE_DECODER_NAME == <<"v","a","e","_","d","e","c","o","d","e","r">>
DIFFUSION_MODEL_CONTROLNET_NAME == <<"c","o","n","t","r","o","l","n","e","t">>
NEURON_FILE_NAME == <<"m","o","d","e","l",".","n","e","u","r","o","n">>
CLIP == <<"c","l","i","p">>

\* ========================================================= shape resolution

\* ---- normalize_sentence_transformers_input_shapes
\* args: [kv |-> dict of integer entries, model |-> string, has_model |-> bool,
\*        cfg |-> "absent" | "True" | "False"]  (cfg: do_classifier_free_guidance)
ArgsGet_model(args) == IF args.has_model THEN args.model ELSE <<>>

SentenceTransformersMandatoryAxes(args) ==
    IF Contains(Lower(ArgsGet_model(args)), CLIP)
    THEN {"text_batch_size", "image_batch_size", "sequence_length",
          "num_channels", "width", "height"}
    ELSE {"batch_size", "sequence_length"}

ArgsKeys(args) ==
    (DOMAIN args.kv) \cup (IF args.has_model THEN {"model"} ELSE {})
        \cup (IF args.cfg = "absent" THEN {} ELSE {"do_classifier_free_guidance"})

normalize_sentence_transformers_input_shapes(args) ==
    LET mandatory_axes == SentenceTransformersMandatoryAxes(args)
    IN  IF ~(mandatory_axes \subseteq ArgsKeys(args))
        THEN [exc |-> "AttributeError", missing |-> mandatory_axes \ ArgsKeys(args),
              shapes |-> <<>>, args |-> args]
        ELSE [exc |-> "none", missing |-> {},
              shapes |-> [name \in mandatory_axes |-> args.kv[name]], args |-> args]

\* ---- build_stable_diffusion_components_mandatory_shapes (utils.py)
BuilderArgs ==
    {"batch_size", "sequence_length", "unet_num_channels", "vae_encoder_num_channels",
     "vae_decoder_num_channels", "height", "width", "num_images_per_prompt",
     "do_classifier_free_guidance"}

build_stable_diffusion_components_mandatory_shapes(kw) ==
    LET images == kw["batch_size"] * kw["num_images_per_prompt"]
    IN  [c \in {"text_encoder", "unet", "vae_encoder", "vae_decoder"} |->
           CASE c = "text_encoder" ->
                  ("batch_size" :> kw["batch_size"]) @@ ("sequence_length" :> None)
             [] c = "unet" ->
                  ("batch_size" :> images) @@ ("sequence_length" :> None)
                    @@ ("num_channels" :> None)
                    @@ ("height" :> kw["height"]) @@ ("width" :> kw["width"])
             [] OTHER ->
                  ("batch_size" :> images) @@ ("num_channels" :> None)
                    @@ ("height" :> kw["height"]) @@ ("width" :> kw["width"])]

\* StableDiffusionMandatoryAxes with the image size taken for optional
StableDiffusionMandatoryAxes_no_image_size ==
    BuilderArgs \ {"sequence_length", "unet_num_channels", "vae_encoder_num_channels",
                   "vae_decoder_num_channels", "num_images_per_prompt",
                   "do_classifier_free_guidance", "height", "width"}

\* ---- normalize_stable_diffusion_input_shapes
StableDiffusionMandatoryAxes ==
    BuilderArgs \ {"sequence_length", "unet_num_channels", "vae_encoder_num_channels",
                   "vae_decoder_num_channels", "num_images_per_prompt",
                   "do_classifier_free_guidance"}

normalize_stable_diffusion_input_shapes(args) ==
    IF args.cfg = "absent"
    THEN \* args.pop("do_classifier_free_guidance") on a dict without the key
         [exc |-> "KeyError", missing |-> {"do_classifier_free_guidance"},
          shapes |-> <<>>, args |-> args]
    ELSE LET popped == [args EXCEPT !.cfg = "absent"]
             mandatory_axes == StableDiffusionMandatoryAxes
         IN  IF ~(mandatory_axes \subseteq ArgsKeys(popped))
             THEN [exc |-> "AttributeError",
                   missing |-> mandatory_axes \ ArgsKeys(popped),
                   shapes |-> <<>>, args |-> popped]
             ELSE LET mandatory_shapes ==
                        Update([name \in mandatory_axes |-> args.kv[name]],
                               "num_images_per_prompt" :>
                                  (IF "num_images_per_prompt" \in DOMAIN args.kv
                                   THEN args.kv["num_images_per_prompt"] ELSE 1))
                  IN  [exc |-> "none", missing |-> {},
                       shapes |-> build_stable_diffusion_components_mandatory_shapes(
                                      mandatory_shapes),
                       args |-> popped]

\* ---- infer_stable_diffusion_shapes_from_diffusers
\* model (a diffusers pipeline):
\*   [tokenizer |-> None | model_max_length, has_tokenizer_2 |-> bool,
\*    tokenizer_2 |-> None | model_max_length, has_text_encoder_2 |-> bool,
\*    unet_in_channels, vae_in_channels, vae_latent_channels |-> int,
\*    n_block_out_channels |-> len(vae.config.block_out_channels),
\*    text_encoder |-> bool (model.text_encoder is not None),
\*    hidden_size |-> text_encoder.config.hidden_size]
RECURSIVE Pow2(_)
Pow2(n) == IF n = 0 THEN 1 ELSE 2 * Pow2(n - 1)

\* PyOr read as a lower clamp: max(x, y)
PyOr_clamp(x, y) == IF x < y THEN y ELSE x

\* Python `x or y` on integers
PyOr(x, y) == IF x = 0 THEN y ELSE x

VaeScaleFactor(model) == PyOr(Pow2(model.n_block_out_channels - 1), 8)

\* SequenceLengthSource looking at tokenizer_2 first
SequenceLengthSource_second_first(model) ==
    IF model.has_tokenizer_2 /\ model.tokenizer_2 # None THEN "tokenizer_2"
    ELSE IF model.tokenizer # None THEN "tokenizer"
    ELSE "none"

\* the tokenizer the sequence length is read from: "tokenizer", "tokenizer_2"
\* or "none" (the AttributeError branch)
SequenceLengthSource(model) ==
    IF model.tokenizer # None THEN "tokenizer"
    ELSE IF model.has_tokenizer_2 /\ model.tokenizer_2 # None THEN "tokenizer_2"
    ELSE "none"

UnetUpdate(sequence_length, unet_num_channels, scaled_height, scaled_width) ==
    ("sequence_length" :> sequence_length) @@ ("num_channels" :> unet_num_channels)
        @@ ("height" :> scaled_height) @@ ("width" :> scaled_width)

\* VaeEncoderUpdate giving the vae encoder the latent size
VaeEncoderUpdate_scaled(num_channels, height, width, scaled_height, scaled_width) ==
    ("num_channels" :> num_channels) @@ ("height" :> scaled_height)
        @@ ("width" :> scaled_width)

VaeEncoderUpdate(num_channels, height, width, scaled_height, scaled_width) ==
    ("num_channels" :> num_channels) @@ ("height" :> height) @@ ("width" :> width)

infer_stable_diffusion_shapes_from_diffusers(input_shapes, model, n_controlnets) ==
    IF SequenceLengthSource(model) = "none"
    THEN [exc |-> "AttributeError", shapes |-> <<>>, input_shapes |-> input_shapes]
    ELSE
    LET sequence_length == IF SequenceLengthSource(model) = "tokenizer"
                           THEN model.tokenizer ELSE model.tokenizer_2
        unet_num_channels == model.unet_in_channels
        vae_encoder_num_channels == model.vae_in_channels
        vae_decoder_num_channels == model.vae_latent_channels
        vae_scale_factor == VaeScaleFactor(model)
        height == input_shapes["unet"]["height"]
        scaled_height == height \div vae_scale_factor
        width == input_shapes["unet"]["width"]
        scaled_width == width \div vae_scale_factor
        text_encoder == Update(input_shapes["text_encoder"],
                               "sequence_length" :> sequence_length)
        s1 == Update(input_shapes, "text_encoder" :> text_encoder)
        s2 == IF model.has_text_encoder_2
              THEN Update(s1, "text_encoder_2" :> text_encoder) ELSE s1
        unet0 == Update(s2["unet"],
                        UnetUpdate(sequence_length, unet_num_channels,
                                   scaled_height, scaled_width))
        unet == IF n_controlnets > 0
                THEN Update(unet0, "vae_scale_factor" :> vae_scale_factor) ELSE unet0
        s3 == Update(s2, "unet" :> unet)
        s4 == Update(s3, "vae_encoder" :>
                  Update(s3["vae_encoder"],
                         VaeEncoderUpdate(vae_encoder_num_channels, height, width,
                                          scaled_height, scaled_width)))
        s5 == Update(s4, "vae_decoder" :>
                  Update(s4["vae_decoder"],
                         ("num_channels" :> vae_decoder_num_channels)
                           @@ ("height" :> scaled_height) @@ ("width" :> scaled_width)))
        s6 == IF n_controlnets > 0 /\ model.text_encoder
              THEN Update(s5, "controlnet" :>
                      (("batch_size" :> unet["batch_size"])
                         @@ ("sequence_length" :> sequence_length)
                         @@ ("num_channels" :> unet_num_channels)
                         @@ ("height" :> scaled_height) @@ ("width" :> scaled_width)
                         @@ ("vae_scale_factor" :> vae_scale_factor)
                         @@ ("encoder_hidden_size" :> model.hidden_size)))
              ELSE s5
    IN  \* the dict passed in is updated in place and returned; reading
        \* model.text_encoder.config of a pipeline without text encoder fails
        \* after the four components have been updated
        IF n_controlnets > 0 /\ ~model.text_encoder
        THEN [exc |-> "AttributeError", shapes |-> <<>>, input_shapes |-> s5]
        ELSE [exc |-> "none", shapes |-> s6, input_shapes |-> s6]

\* ---- the submodel key of single-graph decomposition (lines 325-326)
\* name_or_path: getattr(model, "name_or_path", None); model_name_or_path: the
\* argument; both are strings, NoneStr standing for None.
NoneStr == <<"<None>">>

Truthy(s) == s # NoneStr /\ s # <<>>

ModelShortName(name_or_path, model_name_or_path, model_type) ==
    LET model_name == IF Truthy(name_or_path) THEN name_or_path ELSE model_name_or_path
    IN  IF Truthy(model_name) THEN LastSegment(model_name) ELSE model_type

\* ---- _normalize_lora_params
\* an adapter parameter is [kind |-> "None" | "str" | "float" | "int" | "list",
\* val |-> its items]: the one item of a scalar, the elements of a list
LoraNone == [kind |-> "None", val |-> <<>>]

\* isinstance(p, str) / isinstance(p, float)
WrapIfKind(p, kind) == IF p.kind = kind THEN [kind |-> "list", val |-> p.val] ELSE p

_normalize_lora_params(lora_model_ids, lora_weight_names, lora_adapter_names, lora_scales) ==
    <<WrapIfKind(lora_model_ids, "str"), WrapIfKind(lora_weight_names, "str"),
      WrapIfKind(lora_adapter_names, "str"), WrapIfKind(lora_scales, "float")>>

\* get_stable_diffusion_models_for_export (utils.py) is the one callee given the
\* adapter parameters: the adapters are merged inside it, when ids are given
LoraMergeCalls(lora_model_ids) ==
    IF lora_model_ids.kind = "None" THEN <<>> ELSE <<"merge_lora_adapters">>

\* ==================================================================== state
VARIABLES
    call,        \* the shape-resolution call under way: [fn, ...its arguments]
    ret,         \* what that call returned or raised; [exc |-> "pending"] before
    pc,          \* position of the main_export run
    exc,         \* the exception that left main_export, "none" while there is none
    task,        \* task after TasksManager.map_from_synonym
    env,         \* [neuron, neuronx]: is_neuron_available(), is_neuronx_available()
    model,       \* the loaded model or pipeline
    opts,        \* the other arguments of main_export
    controlnets, \* the local `controlnets` of load_models_and_neuron_configs
    input_shapes,              \* **input_shapes as decomposition holds them
    models_and_neuron_configs, \* submodel name -> (model, neuron_config)
    output_model_names,        \* submodel name -> artifact path
    neuron_outputs,            \* submodel name -> compiled output names
    work,        \* the collaborator calls made so far, in order
    validation   \* the call made to validate_models_outputs and its outcome

vars == <<call, ret, pc, exc, task, env, model, opts, controlnets, input_shapes,
          models_and_neuron_configs, output_model_names, neuron_outputs, work,
          validation>>

exportVars == <<pc, exc, task, env, model, opts, controlnets, input_shapes,
                models_and_neuron_configs, output_model_names, neuron_outputs, work,
                validation>>

Pending == [exc |-> "pending"]

\* local name that was never assigned
Unbound == 0 - 2

\* ============================================ shape resolution, call by call
Chars == {"m", "/"}

Strings(n) == UNION {[1..k -> Chars] : k \in 0..n}

SentenceTransformersAxes ==
    {"batch_size", "text_batch_size", "image_batch_size", "sequence_length",
     "num_channels", "width", "height"}

ModelIds == {<<"b","e","r","t">>, <<"c","l","i","p">>, <<"x","/","C","L","I","P">>}

StableDiffusionCallerAxes == {"batch_size", "height", "width", "num_images_per_prompt"}

Dicts(keys, values) == UNION {[ks -> values] : ks \in SUBSET keys}

ChannelConfigs == {<<4, 3, 4>>, <<9, 3, 4>>}

Pipelines ==
    {[tokenizer |-> t, has_tokenizer_2 |-> h2, tokenizer_2 |-> t2,
      has_text_encoder_2 |-> te2, unet_in_channels |-> ch[1],
      vae_in_channels |-> ch[2], vae_latent_channels |-> ch[3],
      n_block_out_channels |-> n, text_encoder |-> te, hidden_size |-> 8] :
        t \in {None} \cup 1..MaxSeqLen, h2 \in BOOLEAN, te \in BOOLEAN,
        t2 \in {None} \cup 1..MaxSeqLen, te2 \in BOOLEAN,
        ch \in ChannelConfigs, n \in 1..MaxBlocks}

CallerShapes(b, h, w, n) ==
    build_stable_diffusion_components_mandatory_shapes(
        ("batch_size" :> b) @@ ("height" :> h) @@ ("width" :> w)
            @@ ("num_images_per_prompt" :> n))

\* the values an adapter parameter may take: None, a scalar, a list
LoraValues(scalar_kinds, item) ==
    {LoraNone} \cup {[kind |-> k, val |-> <<item>>] : k \in scalar_kinds}
        \cup {[kind |-> "list", val |-> [j \in 1..n |-> item]] : n \in 0..MaxAdapters}

Calls ==
    {[fn |-> "normalize_sentence_transformers_input_shapes",
      args |-> [kv |-> kv, has_model |-> hm, model |-> m, cfg |-> "absent"]] :
        kv \in Dicts(SentenceTransformersAxes, 1..MaxBatch),
        hm \in BOOLEAN, m \in ModelIds}
    \cup
    {[fn |-> "normalize_stable_diffusion_input_shapes",
      args |-> [kv |-> kv, has_model |-> FALSE, model |-> <<>>, cfg |-> c]] :
        kv \in Dicts(StableDiffusionCallerAxes, 1..MaxBatch),
        c \in {"absent", "True", "False"}}
    \cup
    {[fn |-> "infer_stable_diffusion_shapes_from_diffusers",
      input_shapes |-> CallerShapes(b, hw[1], hw[2], 1), model |-> m,
      n_controlnets |-> nc, batch_size |-> b, height |-> hw[1], width |-> hw[2]] :
        b \in 1..MaxBatch, hw \in (1..MaxDim) \X (1..MaxDim),
        m \in {p \in Pipelines : p.has_tokenizer_2 \/ p.tokenizer_2 = None},
        nc \in 0..1}
    \cup
    {[fn |-> "_normalize_lora_params", lora_model_ids |-> i, lora_weight_names |-> w,
      lora_adapter_names |-> a, lora_scales |-> sc] :
        i \in LoraValues({"str"}, "a"), w \in LoraValues({"str"}, "w"),
        a \in LoraValues({"str"}, "n"), sc \in LoraValues({"float", "int"}, 1)}
    \cup
    {[fn |-> "model_name", name_or_path |-> n, model_name_or_path |-> a,
      model_type |-> <<"b","e","r","t">>] :
        n \in Strings(MaxNameLen) \cup {NoneStr},
        a \in Strings(MaxNameLen) \cup {NoneStr}}

IdleExport ==
    /\ pc = "idle" /\ exc = "none" /\ task = <<>> /\ env = <<>> /\ model = <<>>
    /\ opts = <<>> /\ controlnets = Unbound /\ input_shapes = <<>>
    /\ models_and_neuron_configs = <<>> /\ output_model_names = <<>>
    /\ neuron_outputs = <<>> /\ work = <<>> /\ validation = <<>>

InitShapes ==
    /\ call \in Calls
    /\ ret = Pending
    /\ IdleExport

NormalizeSentenceTransformers ==
    /\ call.fn = "normalize_sentence_transformers_input_shapes" /\ ret = Pending
    /\ ret' = normalize_sentence_transformers_input_shapes(call.args)
    /\ UNCHANGED <<call, exportVars>>

NormalizeStableDiffusion ==
    /\ call.fn = "normalize_stable_diffusion_input_shapes" /\ ret = Pending
    /\ ret' = normalize_stable_diffusion_input_shapes(call.args)
    /\ UNCHANGED <<call, exportVars>>

InferStableDiffusionShapes ==
    /\ call.fn = "infer_stable_diffusion_shapes_from_diffusers" /\ ret = Pending
    /\ ret' = infer_stable_diffusion_shapes_from_diffusers(
                  call.input_shapes, call.model, call.n_controlnets)
    /\ UNCHANGED <<call, exportVars>>

ModelName ==
    /\ call.fn = "model_name" /\ ret = Pending
    /\ ret' = [exc |-> "none",
               name |-> ModelShortName(call.name_or_path, call.model_name_or_path,
                                       call.model_type)]
    /\ UNCHANGED <<call, exportVars>>

NormalizeLoraParams ==
    /\ call.fn = "_normalize_lora_params" /\ ret = Pending
    /\ ret' = [exc |-> "none",
               out |-> _normalize_lora_params(call.lora_model_ids, call.lora_weight_names,
                                              call.lora_adapter_names, call.lora_scales)]
    /\ UNCHANGED <<call, exportVars>>

NextShapes ==
    \/ NormalizeSentenceTransformers
    \/ NormalizeStableDiffusion
    \/ InferStableDiffusionShapes
    \/ ModelName
    \/ NormalizeLoraParams

SpecShapes == InitShapes /\ [][NextShapes]_vars

\* ============================================================ decomposition
FILL_MASK == <<"f","i","l","l","-","m","a","s","k">>

Tasks == {FILL_MASK, STABLE_DIFFUSION, STABLE_DIFFUSION \o <<"-","x","l">>}

\* "stable-diffusion" in task
is_stable_diffusion(t) == Contains(t, STABLE_DIFFUSION)

\* getattr(model.config, "is_encoder_decoder", False)
\*     if isinstance(model.config, PretrainedConfig) else False
is_encoder_decoder(m) ==
    IF m.config_is_pretrained THEN m.is_encoder_decoder ELSE FALSE

\* NEURON_COMPILER (lines 60-69): the later assignment wins
NEURON_COMPILER(e) == IF e.neuronx THEN "Neuronx" ELSE "Neuron"

\* DispatchSubmodels whose single-graph check forgets output_hidden_states
DispatchSubmodels_attentions_only(t, m, output_attentions, output_hidden_states) ==
    IF is_stable_diffusion(t)
    THEN IF output_attentions
         THEN [exc |-> "ValueError", pc |-> "raised"]
         ELSE [exc |-> "none", pc |-> "stable_diffusion"]
    ELSE IF is_encoder_decoder(m)
    THEN [exc |-> "none", pc |-> "encoder_decoder"]
    ELSE IF output_attentions
         THEN [exc |-> "ValueError", pc |-> "raised"]
         ELSE [exc |-> "none", pc |-> "single_graph"]

\* DispatchSubmodels without the output_attentions check of lines 290-291
DispatchSubmodels_unchecked(t, m, output_attentions, output_hidden_states) ==
    IF is_stable_diffusion(t)
    THEN [exc |-> "none", pc |-> "stable_diffusion"]
    ELSE IF is_encoder_decoder(m)
    THEN [exc |-> "none", pc |-> "encoder_decoder"]
    ELSE IF output_attentions \/ output_hidden_states
         THEN [exc |-> "ValueError", pc |-> "raised"]
         ELSE [exc |-> "none", pc |-> "single_graph"]

\* the branch of get_submodels_and_neuron_configs that is taken, or the error
\* it raises before taking one
DispatchSubmodels(t, m, output_attentions, output_hidden_states) ==
    IF is_stable_diffusion(t)
    THEN IF output_attentions
         THEN [exc |-> "ValueError", pc |-> "raised"]
         ELSE [exc |-> "none", pc |-> "stable_diffusion"]
    ELSE IF is_encoder_decoder(m)
    THEN [exc |-> "none", pc |-> "encoder_decoder"]
    ELSE IF output_attentions \/ output_hidden_states
         THEN [exc |-> "ValueError", pc |-> "raised"]
         ELSE [exc |-> "none", pc |-> "single_graph"]

\* check_compiler_compatibility_for_stable_diffusion (version_utils.py):
\* the older compiler generation is unsupported
check_compiler_compatibility_for_stable_diffusion(e) ==
    IF NEURON_COMPILER(e) = "Neuron" THEN "UnsupportedCombinationError" ELSE "none"

\* replace_stable_diffusion_submodels (utils.py): a substituted unet brings
\* its own channel configuration
replace_stable_diffusion_submodels(m, submodels) ==
    IF submodels = "unet" THEN [m EXCEPT !.unet_in_channels = 9] ELSE m

\* NeuronCcGuard with the guard left out
NeuronCcGuard_absent(e) == "none"

\* the guard of lines 369-372 and of lines 444-447
NeuronCcGuard(e) == IF e.neuron THEN "RuntimeError" ELSE "none"

\* the save_pretrained / save_config calls of lines 380-387, in order
PersistCalls(m) ==
    <<"scheduler.save_pretrained">>
      \o (IF m.tokenizer # None THEN <<"tokenizer.save_pretrained">> ELSE <<>>)
      \o (IF m.has_tokenizer_2 /\ m.tokenizer_2 # None
          THEN <<"tokenizer_2.save_pretrained">> ELSE <<>>)
      \o (IF m.feature_extractor THEN <<"feature_extractor.save_pretrained">> ELSE <<>>)
      \o <<"save_config">>

ControlnetName(idx) == DIFFUSION_MODEL_CONTROLNET_NAME \o <<"_">> \o Str(idx)

Truth(n) == n # None /\ n # Unbound /\ n # 0

\* get_stable_diffusion_models_for_export (utils.py): one entry per present
\* component and one per controlnet
get_stable_diffusion_models_for_export(m, shapes, n_controlnets, output_hidden_states) ==
    LET names == {DIFFUSION_MODEL_UNET_NAME, DIFFUSION_MODEL_VAE_ENCODER_NAME,
                  DIFFUSION_MODEL_VAE_DECODER_NAME}
                 \cup (IF m.text_encoder THEN {DIFFUSION_MODEL_TEXT_ENCODER_NAME} ELSE {})
                 \cup (IF m.text_encoder_2 THEN {DIFFUSION_MODEL_TEXT_ENCODER_2_NAME}
                       ELSE {})
                 \cup (IF Truth(n_controlnets)
                       THEN {ControlnetName(i) : i \in 0..(n_controlnets - 1)} ELSE {})
        component(k) ==
            CASE k = DIFFUSION_MODEL_UNET_NAME -> "unet"
              [] k = DIFFUSION_MODEL_VAE_ENCODER_NAME -> "vae_encoder"
              [] k = DIFFUSION_MODEL_VAE_DECODER_NAME -> "vae_decoder"
              [] k = DIFFUSION_MODEL_TEXT_ENCODER_NAME -> "text_encoder"
              [] k = DIFFUSION_MODEL_TEXT_ENCODER_2_NAME -> "text_encoder"
              [] OTHER -> "controlnet"
    IN  [k \in names |-> [submodel |-> k, shapes |-> shapes[component(k)],
                          output_hidden_states |-> output_hidden_states]]

\* output_model_names of lines 408-426
StableDiffusionOutputModelNames(m, n_controlnets) ==
    LET names == {DIFFUSION_MODEL_UNET_NAME, DIFFUSION_MODEL_VAE_ENCODER_NAME,
                  DIFFUSION_MODEL_VAE_DECODER_NAME}
                 \cup (IF m.text_encoder THEN {DIFFUSION_MODEL_TEXT_ENCODER_NAME} ELSE {})
                 \cup (IF m.text_encoder_2 THEN {DIFFUSION_MODEL_TEXT_ENCODER_2_NAME}
                       ELSE {})
                 \cup (IF Truth(n_controlnets)
                       THEN {ControlnetName(i) : i \in 0..(n_controlnets - 1)} ELSE {})
    IN  [k \in names |-> PathJoin(k, NEURON_FILE_NAME)]

\* get_encoder_decoder_models_for_export (utils.py)
get_encoder_decoder_models_for_export(shapes, output_attentions, output_hidden_states) ==
    [k \in {ENCODER_NAME, DECODER_NAME} |->
        [submodel |-> k, shapes |-> shapes, output_attentions |-> output_attentions,
         output_hidden_states |-> output_hidden_states]]

EncoderDecoderOutputModelNames ==
    [k \in {ENCODER_NAME, DECODER_NAME} |-> PathJoin(k, NEURON_FILE_NAME)]

\* check_mandatory_input_shapes (utils.py): the names the export configuration
\* requires must all be given
MandatoryInputs == {"batch_size", "sequence_length"}

check_mandatory_input_shapes(shapes) ==
    IF MandatoryInputs \subseteq DOMAIN shapes
    THEN [exc |-> "none", shapes |-> Restrict(shapes, MandatoryInputs)]
    ELSE [exc |-> "AttributeError", shapes |-> shapes]

\* lines 325-328: the single entry of both mappings
SingleGraphOutputModelNames(m, model_name_or_path) ==
    LET model_name == ModelShortName(m.name_or_path, model_name_or_path, m.model_type)
    IN  model_name :> NEURON_FILE_NAME

SingleGraphModels(m, model_name_or_path, shapes, dynamic_batch_size) ==
    LET model_name == ModelShortName(m.name_or_path, model_name_or_path, m.model_type)
    IN  model_name :> [submodel |-> model_name, shapes |-> shapes,
                       dynamic_batch_size |-> dynamic_batch_size]

\* ============================================================== main_export
\* what validate_models_outputs (convert.py) may do: return, or raise one of
\* the errors of error_utils.py, or anything else
ValidationOutcomes == {"ok", "ShapeError", "AtolError", "OutputMatchError", "Exception"}

\* HandleValidation without the `except ShapeError: raise e` clause
HandleValidation_downgrade(outcome) ==
    CASE outcome = "ok" -> [pc |-> "exported", exc |-> "none", log |-> "info"]
      [] outcome = "AtolError" -> [pc |-> "exported", exc |-> "none", log |-> "warning"]
      [] outcome = "OutputMatchError" ->
             [pc |-> "exported", exc |-> "none", log |-> "warning"]
      [] OTHER -> [pc |-> "exported", exc |-> "none", log |-> "error"]

\* the try/except of lines 617-645: what main_export does with the outcome
HandleValidation(outcome) ==
    CASE outcome = "ok" -> [pc |-> "exported", exc |-> "none", log |-> "info"]
      [] outcome = "ShapeError" -> [pc |-> "raised", exc |-> "ShapeError", log |-> "none"]
      [] outcome = "AtolError" -> [pc |-> "exported", exc |-> "none", log |-> "warning"]
      [] outcome = "OutputMatchError" ->
             [pc |-> "exported", exc |-> "none", log |-> "warning"]
      [] OTHER -> [pc |-> "exported", exc |-> "none", log |-> "error"]

\* DropVaeEncoder that forgets the artifact-name map
DropVaeEncoder_keep_name(t, outputs, models, names) ==
    IF ~is_stable_diffusion(t)
    THEN [exc |-> "none", outputs |-> outputs, models |-> models, names |-> names]
    ELSE IF DIFFUSION_MODEL_VAE_ENCODER_NAME \notin DOMAIN outputs
    THEN [exc |-> "KeyError", outputs |-> outputs, models |-> models, names |-> names]
    ELSE [exc |-> "none",
          outputs |-> Without(outputs, DIFFUSION_MODEL_VAE_ENCODER_NAME),
          models |-> Without(models, DIFFUSION_MODEL_VAE_ENCODER_NAME),
          names |-> names]

\* lines 611-615: the three mappings after the vae-encoder drop, or the
\* KeyError of dict.pop without default
DropVaeEncoder(t, outputs, models, names) ==
    IF ~is_stable_diffusion(t)
    THEN [exc |-> "none", outputs |-> outputs, models |-> models, names |-> names]
    ELSE IF DIFFUSION_MODEL_VAE_ENCODER_NAME \notin DOMAIN outputs
    THEN [exc |-> "KeyError", outputs |-> outputs, models |-> models, names |-> names]
    ELSE [exc |-> "none",
          outputs |-> Without(outputs, DIFFUSION_MODEL_VAE_ENCODER_NAME),
          models |-> Without(models, DIFFUSION_MODEL_VAE_ENCODER_NAME),
          names |-> Without(names, DIFFUSION_MODEL_VAE_ENCODER_NAME)]

\* lines 509-510: the local `controlnets` is assigned only under the `if`
LoadControlnets(controlnet_model_ids) ==
    IF Truth(controlnet_model_ids) THEN controlnet_model_ids ELSE Unbound

TransformersModels ==
    {[kind |-> "transformers", config_is_pretrained |-> cp, is_encoder_decoder |-> ed,
      name_or_path |-> n, model_type |-> <<"b","e","r","t">>] :
        cp \in BOOLEAN, ed \in BOOLEAN, n \in Strings(MaxNameLen) \cup {NoneStr}}

ExportPipelines ==
    {[kind |-> "pipeline", config_is_pretrained |-> FALSE, is_encoder_decoder |-> FALSE,
      tokenizer |-> t, has_tokenizer_2 |-> h2, tokenizer_2 |-> IF h2 THEN MaxSeqLen ELSE None,
      has_text_encoder_2 |-> h2, text_encoder_2 |-> h2, text_encoder |-> te,
      feature_extractor |-> h2,
      unet_in_channels |-> 4, vae_in_channels |-> 3, vae_latent_channels |-> 4,
      n_block_out_channels |-> MaxBlocks, hidden_size |-> 8] :
        t \in {None, MaxSeqLen}, h2 \in BOOLEAN, te \in BOOLEAN}

SingleGraphShapes ==
    {("batch_size" :> 1) @@ ("sequence_length" :> MaxSeqLen), ("batch_size" :> 1)}

InitExport ==
    /\ call = [fn |-> "none"]
    /\ ret = Pending
    /\ pc = "main_export"
    /\ exc = "none"
    /\ task \in Tasks
    /\ env \in {e \in [neuron : BOOLEAN, neuronx : BOOLEAN] : e.neuron \/ e.neuronx}
    /\ model \in IF is_stable_diffusion(task) THEN ExportPipelines ELSE TransformersModels
    /\ opts \in [do_validation : BOOLEAN, atol : {None, 1},
                 output_attentions : BOOLEAN, output_hidden_states : BOOLEAN,
                 controlnet_model_ids : {None} \cup 0..MaxControlnets,
                 submodels : IF is_stable_diffusion(task) THEN {"none", "unet"}
                             ELSE {"none"},
                 model_name_or_path : IF is_stable_diffusion(task)
                                      THEN {<<"m">>} ELSE {<<>>, <<"m", "/", "m">>},
                 dynamic_batch_size : {FALSE},
                 lora_model_ids : IF is_stable_diffusion(task)
                                  THEN {LoraNone, [kind |-> "str", val |-> <<"a">>]}
                                  ELSE {LoraNone},
                 lora_scales : {LoraNone}]
    /\ input_shapes \in IF is_stable_diffusion(task)
                        THEN {CallerShapes(MaxBatch, MaxDim, MaxDim, 1)}
                        ELSE SingleGraphShapes
    /\ controlnets = Unbound
    /\ models_and_neuron_configs = <<>>
    /\ output_model_names = <<>>
    /\ neuron_outputs = <<>>
    /\ work = <<>>
    /\ validation = [called |-> FALSE]

Raise(e) == pc' = "raised" /\ exc' = e

\* load_models_and_neuron_configs up to the call of line 512
LoadModelsAndNeuronConfigs ==
    /\ pc = "main_export"
    /\ controlnets' = LoadControlnets(opts.controlnet_model_ids)
    /\ IF controlnets' = Unbound
       THEN \* `controlnets=controlnets` reads the unassigned local
            /\ Raise("UnboundLocalError")
            /\ UNCHANGED work
       ELSE /\ work' = Append(work, "load_controlnets")
            /\ pc' = "get_submodels_and_neuron_configs"
            /\ UNCHANGED exc
    /\ UNCHANGED <<call, ret, task, env, model, opts, input_shapes,
                   models_and_neuron_configs, output_model_names, neuron_outputs,
                   validation>>

\* get_submodels_and_neuron_configs, lines 283-316: the family dispatch
GetSubmodelsAndNeuronConfigs ==
    /\ pc = "get_submodels_and_neuron_configs"
    /\ LET d == DispatchSubmodels(task, model, opts.output_attentions,
                                  opts.output_hidden_states)
       IN  pc' = d.pc /\ exc' = d.exc
    /\ UNCHANGED <<call, ret, task, env, model, opts, controlnets, input_shapes,
                   models_and_neuron_configs, output_model_names, neuron_outputs,
                   work, validation>>

\* line 367
CheckCompilerCompatibility ==
    /\ pc = "stable_diffusion"
    /\ LET e == check_compiler_compatibility_for_stable_diffusion(env)
       IN  IF e # "none" THEN Raise(e)
           ELSE pc' = "replace_submodels" /\ UNCHANGED exc
    /\ UNCHANGED <<call, ret, task, env, model, opts, controlnets, input_shapes,
                   models_and_neuron_configs, output_model_names, neuron_outputs,
                   work, validation>>

\* lines 368-372
ReplaceSubmodels ==
    /\ pc = "replace_submodels"
    /\ model' = replace_stable_diffusion_submodels(model, opts.submodels)
    /\ work' = Append(work, "replace_stable_diffusion_submodels")
    /\ IF NeuronCcGuard(env) # "none" THEN Raise(NeuronCcGuard(env))
       ELSE pc' = "infer_shapes" /\ UNCHANGED exc
    /\ UNCHANGED <<call, ret, task, env, opts, controlnets, input_shapes,
                   models_and_neuron_configs, output_model_names, neuron_outputs,
                   validation>>

\* lines 373-377
InferShapes ==
    /\ pc = "infer_shapes"
    /\ LET r == infer_stable_diffusion_shapes_from_diffusers(
                    input_shapes, model, controlnets)
       IN  /\ input_shapes' = r.input_shapes
           /\ IF r.exc # "none" THEN Raise(r.exc)
              ELSE pc' = "persist" /\ UNCHANGED exc
    /\ work' = Append(work, "infer_stable_diffusion_shapes_from_diffusers")
    /\ UNCHANGED <<call, ret, task, env, model, opts, controlnets,
                   models_and_neuron_configs, output_model_names, neuron_outputs,
                   validation>>

\* lines 379-387: each save may fail, and nothing catches the failure
Persist ==
    /\ pc = "persist"
    /\ \E n \in 1..(Len(PersistCalls(model)) + 1) :
         IF n <= Len(PersistCalls(model))
         THEN /\ work' = work \o SubSeq(PersistCalls(model), 1, n)
              /\ Raise("OSError")
         ELSE /\ work' = work \o PersistCalls(model)
              /\ pc' = "models_for_export" /\ UNCHANGED exc
    /\ UNCHANGED <<call, ret, task, env, model, opts, controlnets, input_shapes,
                   models_and_neuron_configs, output_model_names, neuron_outputs,
                   validation>>

\* lines 389-431
StableDiffusionModelsForExport ==
    /\ pc = "models_for_export"
    /\ models_and_neuron_configs' =
           get_stable_diffusion_models_for_export(model, input_shapes, controlnets,
                                                  opts.output_hidden_states)
    /\ output_model_names' = StableDiffusionOutputModelNames(model, controlnets)
    /\ LET lora == _normalize_lora_params(opts.lora_model_ids, LoraNone, LoraNone,
                                          opts.lora_scales)
       IN  work' = work \o LoraMergeCalls(lora[1])
                        \o <<"get_stable_diffusion_models_for_export">>
    /\ pc' = "export_models"
    /\ UNCHANGED <<call, ret, exc, task, env, model, opts, controlnets, input_shapes,
                   neuron_outputs, validation>>

\* _get_submodels_and_neuron_configs_for_encoder_decoder, lines 444-463
EncoderDecoderModelsForExport ==
    /\ pc = "encoder_decoder"
    /\ IF NeuronCcGuard(env) # "none"
       THEN /\ Raise(NeuronCcGuard(env))
            /\ UNCHANGED <<models_and_neuron_configs, output_model_names, work>>
       ELSE /\ models_and_neuron_configs' =
                   get_encoder_decoder_models_for_export(
                       input_shapes, opts.output_attentions, opts.output_hidden_states)
            /\ output_model_names' = EncoderDecoderOutputModelNames
            /\ work' = work \o <<"get_encoder_decoder_models_for_export",
                                 "maybe_save_preprocessors">>
            /\ pc' = "export_models" /\ UNCHANGED exc
    /\ UNCHANGED <<call, ret, task, env, model, opts, controlnets, input_shapes,
                   neuron_outputs, validation>>

\* get_submodels_and_neuron_configs, lines 317-330
SingleGraphModelsForExport ==
    /\ pc = "single_graph"
    /\ LET c == check_mandatory_input_shapes(input_shapes)
       IN  IF c.exc # "none"
           THEN /\ Raise(c.exc)
                /\ work' = work \o <<"get_exporter_config_constructor",
                                     "check_mandatory_input_shapes">>
                /\ UNCHANGED <<input_shapes, models_and_neuron_configs,
                               output_model_names>>
           ELSE /\ input_shapes' = c.shapes
                /\ models_and_neuron_configs' =
                       SingleGraphModels(model, opts.model_name_or_path, c.shapes,
                                         opts.dynamic_batch_size)
                /\ output_model_names' =
                       SingleGraphOutputModelNames(model, opts.model_name_or_path)
                /\ work' = work \o <<"get_exporter_config_constructor",
                                     "check_mandatory_input_shapes",
                                     "neuron_config_constructor",
                                     "maybe_save_preprocessors">>
                /\ pc' = "export_models" /\ UNCHANGED exc
    /\ UNCHANGED <<call, ret, task, env, model, opts, controlnets, neuron_outputs,
                   validation>>

\* export_models (convert.py), lines 596-606: each submodel is compiled on its
\* own; the compiled outputs of those that succeeded are returned
ExportModels ==
    /\ pc = "export_models"
    /\ \E failed \in SUBSET (DOMAIN models_and_neuron_configs) :
         /\ Cardinality(failed) <= MaxFailed
         /\ neuron_outputs' =
                [k \in (DOMAIN models_and_neuron_configs) \ failed |-> <<"outputs", k>>]
    /\ work' = Append(work, "export_models")
    /\ pc' = "do_validation"
    /\ UNCHANGED <<call, ret, exc, task, env, model, opts, controlnets, input_shapes,
                   models_and_neuron_configs, output_model_names, validation>>

\* lines 608-615
PrepareValidation ==
    /\ pc = "do_validation"
    /\ IF ~opts.do_validation
       THEN /\ pc' = "exported"
            /\ UNCHANGED <<exc, neuron_outputs, models_and_neuron_configs,
                           output_model_names>>
       ELSE LET d == DropVaeEncoder(task, neuron_outputs, models_and_neuron_configs,
                                    output_model_names)
            IN  /\ neuron_outputs' = d.outputs
                /\ models_and_neuron_configs' = d.models
                /\ output_model_names' = d.names
                /\ IF d.exc # "none" THEN Raise(d.exc)
                   ELSE pc' = "validate_models_outputs" /\ UNCHANGED exc
    /\ UNCHANGED <<call, ret, task, env, model, opts, controlnets, input_shapes,
                   work, validation>>

\* lines 617-645
ValidateModelsOutputs ==
    /\ pc = "validate_models_outputs"
    /\ \E outcome \in ValidationOutcomes :
         /\ validation' = [called |-> TRUE,
                           models_and_neuron_configs |-> models_and_neuron_configs,
                           neuron_named_outputs |-> neuron_outputs,
                           neuron_files_subpaths |-> output_model_names,
                           atol |-> opts.atol,
                           outcome |-> outcome,
                           log |-> HandleValidation(outcome).log]
         /\ pc' = HandleValidation(outcome).pc
         /\ exc' = HandleValidation(outcome).exc
    /\ work' = Append(work, "validate_models_outputs")
    /\ UNCHANGED <<call, ret, task, env, model, opts, controlnets, input_shapes,
                   models_and_neuron_configs, output_model_names, neuron_outputs>>

Next ==
    \/ LoadModelsAndNeuronConfigs
    \/ GetSubmodelsAndNeuronConfigs
    \/ CheckCompilerCompatibility
    \/ ReplaceSubmodels
    \/ InferShapes
    \/ Persist
    \/ StableDiffusionModelsForExport
    \/ EncoderDecoderModelsForExport
    \/ SingleGraphModelsForExport
    \/ ExportModels
    \/ PrepareValidation
    \/ ValidateModelsOutputs

Spec == InitExport /\ [][Next]_vars

\* =================================================================== claims
Did(event) == \E i \in 1..Len(work) : work[i] = event

\* decomposition (get_submodels_and_neuron_configs) was entered
DecompositionEntered == pc \notin {"idle", "main_export"} /\ controlnets # Unbound

\* export_models has returned: steps 1-4 raised nothing
ExportReturned == Did("export_models")

\* C1: when validation is requested and validate_models_outputs raises a
\* ShapeError, main_export ends by raising that ShapeError: it is not logged and
\* the run does not return normally, whatever the task and atol.
C1_ShapeErrorPropagates ==
    (validation.called /\ validation.outcome = "ShapeError")
        => (pc = "raised" /\ exc = "ShapeError" /\ validation.log = "none")

C1_Witness ==
    /\ opts.do_validation /\ validation.called /\ validation.outcome = "ShapeError"
    /\ is_stable_diffusion(task) /\ opts.atol # None
    /\ pc = "raised" /\ exc = "ShapeError"

\* C2: once export_models has returned, the run ends "exported" unless a
\* ShapeError is raised: no other exception leaves step 5, for every content of
\* the compiled-outputs map.
C2_OnlyShapeErrorEscapesStep5 ==
    (ExportReturned /\ pc = "raised") => exc = "ShapeError"

\* C3: for the encoder-decoder family, when neuron-cc is available the
\* decomposition raises RuntimeError with nothing done (no call of
\* get_encoder_decoder_models_for_export, no preprocessor saved, no mapping
\* returned); when decomposition returns, the artifact-name map has exactly the
\* keys "encoder" and "decoder".
EncoderDecoderFamily ==
    pc # "idle" /\ ~is_stable_diffusion(task) /\ is_encoder_decoder(model)

C3_EncoderDecoderFailFast ==
    /\ (EncoderDecoderFamily /\ DecompositionEntered /\ env.neuron
          /\ pc \notin {"get_submodels_and_neuron_configs", "encoder_decoder"})
         => /\ pc = "raised" /\ exc = "RuntimeError"
            /\ ~Did("get_encoder_decoder_models_for_export")
            /\ ~Did("maybe_save_preprocessors")
            /\ DOMAIN models_and_neuron_configs = {}
            /\ DOMAIN output_model_names = {}
    /\ (EncoderDecoderFamily /\ Did("get_encoder_decoder_models_for_export"))
         => /\ ~env.neuron
            /\ DOMAIN output_model_names = {ENCODER_NAME, DECODER_NAME}

C3_Witness ==
    /\ EncoderDecoderFamily /\ env.neuron /\ opts.output_attentions
    /\ pc = "raised" /\ exc = "RuntimeError" /\ work = <<"load_controlnets">>

\* C4: a run without controlnet identifiers (None or empty) reaches
\* decomposition: load_models_and_neuron_configs raises nothing because of
\* their absence.
C4_NoControlnetsIsNoError ==
    (pc # "idle" /\ ~Truth(opts.controlnet_model_ids))
        => ~(pc = "raised" /\ exc = "UnboundLocalError")

\* C5: single-graph decomposition emits exactly one submodel entry and one
\* artifact-name entry under the same key, the last "/"-separated segment of
\* the model identifier (name_or_path if non-empty, else model_name_or_path),
\* or model_type when there is no identifier; the artifact is "model.neuron".
SingleGraphFamily ==
    /\ pc # "idle" /\ ~is_stable_diffusion(task) /\ ~is_encoder_decoder(model)
    /\ ~opts.output_attentions /\ ~opts.output_hidden_states

IsLastSegmentOf(key, ident) ==
    /\ \A i \in 1..Len(key) : key[i] # "/"
    /\ Len(key) <= Len(ident)
    /\ SubSeq(ident, Len(ident) - Len(key) + 1, Len(ident)) = key
    /\ (Len(key) = Len(ident) \/ ident[Len(ident) - Len(key)] = "/")

Identifier ==
    IF model.name_or_path # NoneStr /\ Len(model.name_or_path) > 0
    THEN model.name_or_path ELSE opts.model_name_or_path

C5_SingleGraphOneEntry ==
    (SingleGraphFamily /\ Did("maybe_save_preprocessors"))
        => \E key \in DOMAIN output_model_names :
             /\ DOMAIN output_model_names = {key}
             /\ DOMAIN models_and_neuron_configs = {key}
             /\ output_model_names[key] = <<"m","o","d","e","l",".","n","e","u","r","o","n">>
             /\ IF Identifier # NoneStr /\ Len(Identifier) > 0
                THEN IsLastSegmentOf(key, Identifier)
                ELSE key = model.model_type

C5_Witness ==
    /\ SingleGraphFamily /\ pc = "export_models"
    /\ model.name_or_path = <<"m", "/", "m">>
    /\ DOMAIN models_and_neuron_configs = {<<"m">>}

\* the dimension sets D the two resolvers require
SentenceTransformersD ==
    IF call.args.has_model /\ Contains(Lower(call.args.model), <<"c","l","i","p">>)
    THEN {"text_batch_size", "image_batch_size", "sequence_length", "num_channels",
          "width", "height"}
    ELSE {"batch_size", "sequence_length"}

StableDiffusionD == {"batch_size", "height", "width"}

ResolverD ==
    IF call.fn = "normalize_stable_diffusion_input_shapes"
    THEN StableDiffusionD ELSE SentenceTransformersD

IsResolverCall ==
    call.fn \in {"normalize_stable_diffusion_input_shapes",
                 "normalize_sentence_transformers_input_shapes"}

\* the caller supplies some but not all of D
ProperSubsetSupplied ==
    IsResolverCall /\ ret # Pending /\ ~(ResolverD \subseteq DOMAIN call.args.kv)

RaisedMissing ==
    /\ ret.exc = "AttributeError"
    /\ ret.missing = ResolverD \ (DOMAIN call.args.kv)

\* C6 as stated: shape resolution called with a proper subset of the required
\* dimension set D raises the missing-shape error naming exactly D minus the
\* supplied keys, for both resolvers.
C6_MissingShapesNamed == ProperSubsetSupplied => RaisedMissing

\* C6 as amended: the same, where for the generative-pipeline resolver the
\* caller's mapping holds the do_classifier_free_guidance entry; without that
\* entry the resolver raises KeyError for it, whatever dimensions are supplied.
C6_MissingShapesNamedGivenGuidanceFlag ==
    /\ (ProperSubsetSupplied
          /\ (call.fn = "normalize_stable_diffusion_input_shapes"
                => call.args.cfg # "absent"))
         => RaisedMissing
    /\ (call.fn = "normalize_stable_diffusion_input_shapes" /\ ret # Pending
          /\ call.args.cfg = "absent")
         => ret.exc = "KeyError"

C6_Witness ==
    /\ call.fn = "normalize_stable_diffusion_input_shapes"
    /\ call.args.cfg = "True"
    /\ DOMAIN call.args.kv = {"batch_size", "width", "num_images_per_prompt"}
    /\ ret # Pending /\ ret.exc = "AttributeError" /\ ret.missing = {"height"}

\* q = floor(a / f)
IsFloorDiv(q, a, f) == q * f <= a /\ a < (q + 1) * f

InferReturned ==
    /\ call.fn = "infer_stable_diffusion_shapes_from_diffusers"
    /\ ret # Pending /\ ret.exc = "none"

\* C7: after shape inference the vae encoder has the caller's height and
\* width, and unet and vae decoder both have floor(height / f) and
\* floor(width / f) for the one compression factor f of the pipeline.
C7_SpatialDimensions ==
    InferReturned =>
        LET f == 2 ^ (call.model.n_block_out_channels - 1)
            sh == ret.shapes
        IN  /\ sh["vae_encoder"]["height"] = call.height
            /\ sh["vae_encoder"]["width"] = call.width
            /\ IsFloorDiv(sh["unet"]["height"], call.height, f)
            /\ IsFloorDiv(sh["unet"]["width"], call.width, f)
            /\ sh["vae_decoder"]["height"] = sh["unet"]["height"]
            /\ sh["vae_decoder"]["width"] = sh["unet"]["width"]

C7_Witness ==
    /\ InferReturned
    /\ call.height = 5 /\ call.width = 3 /\ call.model.n_block_out_channels = 2
    /\ ret.shapes["unet"]["height"] = 2 /\ ret.shapes["unet"]["width"] = 1
    /\ ret.shapes["vae_encoder"]["height"] = 5

\* C8: with a tokenizer of max length L and caller batch size B the derived
\* text_encoder shape is exactly {batch_size: B, sequence_length: L} and the
\* unet sequence_length is L; with no tokenizer and no non-None tokenizer_2,
\* inference raises AttributeError and leaves the shapes as they were.
C8_SequenceLengthFromTokenizer ==
    /\ (InferReturned /\ call.model.tokenizer # None)
         => /\ ret.shapes["text_encoder"] =
                   ("batch_size" :> call.batch_size)
                     @@ ("sequence_length" :> call.model.tokenizer)
            /\ ret.shapes["unet"]["sequence_length"] = call.model.tokenizer
    /\ (call.fn = "infer_stable_diffusion_shapes_from_diffusers" /\ ret # Pending
          /\ call.model.tokenizer # None
          /\ (call.model.text_encoder \/ call.n_controlnets = 0))
         => ret.exc = "none"
    /\ (call.fn = "infer_stable_diffusion_shapes_from_diffusers" /\ ret # Pending
          /\ call.model.tokenizer = None
          /\ ~(call.model.has_tokenizer_2 /\ call.model.tokenizer_2 # None))
         => /\ ret.exc = "AttributeError"
            /\ ret.input_shapes = call.input_shapes

C8_Witness ==
    /\ InferReturned
    /\ call.model.tokenizer = 1 /\ call.model.has_tokenizer_2
    /\ call.model.tokenizer_2 = 2 /\ call.batch_size = 2
    /\ ret.shapes["text_encoder"]["sequence_length"] = 1

\* C9: what validate_models_outputs receives is the three mappings as export
\* left them, less the "vae_encoder" entry of each for a stable-diffusion task
\* and with every other entry as it was; for other tasks nothing is removed.
C9_DropStep ==
    (pc = "do_validation" /\ pc' = "validate_models_outputs")
        => LET gone == IF is_stable_diffusion(task)
                       THEN {DIFFUSION_MODEL_VAE_ENCODER_NAME} ELSE {}
           IN  /\ neuron_outputs' =
                      Restrict(neuron_outputs, (DOMAIN neuron_outputs) \ gone)
               /\ models_and_neuron_configs' =
                      Restrict(models_and_neuron_configs,
                               (DOMAIN models_and_neuron_configs) \ gone)
               /\ output_model_names' =
                      Restrict(output_model_names, (DOMAIN output_model_names) \ gone)

C9_ValidateStep ==
    (pc = "validate_models_outputs" /\ pc' # pc)
        => /\ validation'.called
           /\ validation'.neuron_named_outputs = neuron_outputs
           /\ validation'.models_and_neuron_configs = models_and_neuron_configs
           /\ validation'.neuron_files_subpaths = output_model_names
           /\ is_stable_diffusion(task) =>
                /\ DIFFUSION_MODEL_VAE_ENCODER_NAME
                       \notin DOMAIN validation'.neuron_named_outputs
                /\ DIFFUSION_MODEL_VAE_ENCODER_NAME
                       \notin DOMAIN validation'.models_and_neuron_configs
                /\ DIFFUSION_MODEL_VAE_ENCODER_NAME
                       \notin DOMAIN validation'.neuron_files_subpaths

C9_VaeEncoderNotValidated == [][C9_DropStep /\ C9_ValidateStep]_vars

C9_Witness ==
    /\ validation.called /\ is_stable_diffusion(task)
    /\ DIFFUSION_MODEL_UNET_NAME \in DOMAIN validation.neuron_files_subpaths
    /\ DIFFUSION_MODEL_VAE_ENCODER_NAME \notin DOMAIN validation.neuron_files_subpaths

\* C10: in stable-diffusion decomposition, when the older compiler generation
\* is the active one or output_attentions is requested, the error is raised
\* with no submodel substituted, no shape derived and nothing persisted.
StableDiffusionWork ==
    {"replace_stable_diffusion_submodels",
     "infer_stable_diffusion_shapes_from_diffusers",
     "scheduler.save_pretrained", "tokenizer.save_pretrained",
     "tokenizer_2.save_pretrained", "feature_extractor.save_pretrained",
     "save_config", "get_stable_diffusion_models_for_export"}

FirstAt(event) == CHOOSE i \in 1..Len(work) : work[i] = event /\ \A j \in 1..(i - 1) : work[j] # event

\* C11: with adapter identifiers supplied, the adapters are merged before the
\* per-component shapes are inferred, and submodel substitution comes before
\* both.
C11_MergeBeforeShapeInference ==
    (pc # "idle" /\ opts.lora_model_ids.kind # "None" /\ Did("merge_lora_adapters"))
        => /\ Did("replace_stable_diffusion_submodels")
           /\ FirstAt("replace_stable_diffusion_submodels") < FirstAt("merge_lora_adapters")
           /\ Did("infer_stable_diffusion_shapes_from_diffusers")
                => FirstAt("merge_lora_adapters")
                     < FirstAt("infer_stable_diffusion_shapes_from_diffusers")

\* C12: a failure while persisting the scheduler, a tokenizer, the feature
\* extractor or the pipeline config does not end the run: decomposition still
\* returns its two mappings.
C12_PersistFailureIsolated == ~(pc = "raised" /\ exc = "OSError")

\* C13 as stated: the compression factor applied to height and width is
\* 2^(len(block_out_channels) - 1) clamped to at least 8, so never below 8.
InferReturnedWithControlnets == InferReturned /\ call.n_controlnets > 0

C13_FactorAtLeastEight ==
    InferReturnedWithControlnets
        => LET p == 2 ^ (call.model.n_block_out_channels - 1)
               f == ret.shapes["unet"]["vae_scale_factor"]
           IN  /\ f >= 8
               /\ f = IF p < 8 THEN 8 ELSE p
               /\ IsFloorDiv(ret.shapes["unet"]["height"], call.height, f)
               /\ IsFloorDiv(ret.shapes["unet"]["width"], call.width, f)

\* C13 as amended: the factor is 2^(len(block_out_channels) - 1) itself, which
\* is at least 1; the `or 8` fallback replaces only a factor of 0, which no
\* number of stages gives, so nothing is clamped.
C13_FactorIsPowerOfTwo ==
    /\ InferReturnedWithControlnets
         => LET p == 2 ^ (call.model.n_block_out_channels - 1)
                f == ret.shapes["unet"]["vae_scale_factor"]
            IN  /\ f = p /\ f >= 1
                /\ ret.shapes["controlnet"]["vae_scale_factor"] = p
    /\ InferReturned
         => LET p == 2 ^ (call.model.n_block_out_channels - 1)
            IN  /\ IsFloorDiv(ret.shapes["unet"]["height"], call.height, p)
                /\ IsFloorDiv(ret.shapes["unet"]["width"], call.width, p)

C13_Witness ==
    /\ InferReturnedWithControlnets
    /\ call.model.n_block_out_channels = 2 /\ call.height = 4
    /\ ret.shapes["unet"]["vae_scale_factor"] = 2
    /\ ret.shapes["unet"]["height"] = 2

\* C14: shape resolution changes nothing of the caller's: after
\* normalize_stable_diffusion_input_shapes the argument mapping has the keys
\* and values it had, and after infer_stable_diffusion_shapes_from_diffusers
\* the per-component mapping passed in is as it was.
C14_ShapeResolutionIsPure ==
    /\ (call.fn = "normalize_stable_diffusion_input_shapes" /\ ret # Pending)
         => ret.args = call.args
    /\ (call.fn = "infer_stable_diffusion_shapes_from_diffusers" /\ ret # Pending)
         => ret.input_shapes = call.input_shapes

\* C15: each of the four adapter parameters is normalised on its own: a bare
\* scalar becomes the one-element list holding it, a list stays as it is, the
\* call never raises whatever the four lengths are, and normalising twice
\* gives what normalising once gives.
LoraParams == <<call.lora_model_ids, call.lora_weight_names, call.lora_adapter_names,
                call.lora_scales>>

IsScalar(p) == p.kind \in {"str", "float", "int"}

C15_LoraParamsNormalised ==
    (call.fn = "_normalize_lora_params" /\ ret # Pending)
        => /\ ret.exc = "none"
           /\ \A i \in 1..4 :
                /\ IsScalar(LoraParams[i])
                     => /\ ret.out[i].kind = "list"
                        /\ ret.out[i].val = LoraParams[i].val
                /\ LoraParams[i].kind = "list" => ret.out[i] = LoraParams[i]
           /\ _normalize_lora_params(ret.out[1], ret.out[2], ret.out[3], ret.out[4])
                = ret.out

\* C16: in single-graph decomposition a request for attention weights or
\* hidden states that the task does not support is refused with an error before
\* the export configuration is looked up or constructed and before any
\* preprocessor is saved; a configuration is constructed only with the optional
\* outputs that were requested.  The code supports neither output for any
\* single-graph task, so every request is refused.
SingleGraphDispatch ==
    /\ pc # "idle" /\ ~is_stable_diffusion(task) /\ ~is_encoder_decoder(model)
    /\ DecompositionEntered /\ pc # "get_submodels_and_neuron_configs"

====
